---------------------------- MODULE Spec2Model ----------------------------
(***************************************************************************)
(* DGA Withdrawal Planner: the year-by-year simulation                     *)
(* (simulate_withdrawal) and the bisection that calibrates the net         *)
(* withdrawal, as the script runs them: inputs, optional bisection, then   *)
(* the final simulation whose rows are rendered.                           *)
(*                                                                         *)
(* Python's float arithmetic is modelled by exact rational arithmetic: a   *)
(* number is a pair <<n, d>> in lowest terms with d > 0.  Rounding of      *)
(* IEEE doubles is therefore outside the model.                            *)
(***************************************************************************)
EXTENDS Integers, Sequences, FiniteSets

(***************************************************************************)
(* Bounds of the model.                                                    *)
(***************************************************************************)
MaxYears == 3
MaxCapital == 6

(***************************************************************************)
(* Program constants.                                                      *)
(***************************************************************************)
tol == 1
current_year == 2026

(***************************************************************************)
(* Exact arithmetic standing for the float operators of the source.        *)
(***************************************************************************)
Abs(n) == IF n < 0 THEN -n ELSE n

RECURSIVE GCD(_, _)
GCD(a, b) == IF b = 0 THEN a ELSE GCD(b, a % b)

LCM(a, b) == (a \div GCD(a, b)) * b

Norm(n, d) == LET g == GCD(Abs(n), d) IN <<n \div g, d \div g>>

R(n) == <<n, 1>>

Q(n, d) == Norm(n, d)

Zero == R(0)

One == R(1)

RAdd(x, y) ==
    LET l == LCM(x[2], y[2])
    IN  Norm(x[1] * (l \div x[2]) + y[1] * (l \div y[2]), l)

RNeg(x) == <<-x[1], x[2]>>

RSub(x, y) == RAdd(x, RNeg(y))

RMul(x, y) ==
    LET g1 == GCD(Abs(x[1]), y[2])
        g2 == GCD(Abs(y[1]), x[2])
    IN  <<(x[1] \div g1) * (y[1] \div g2), (x[2] \div g2) * (y[2] \div g1)>>

RInv(y) == IF y[1] > 0 THEN <<y[2], y[1]>> ELSE <<-y[2], -y[1]>>

RDiv(x, y) == RMul(x, RInv(y))

RLt(x, y) == RSub(x, y)[1] < 0

RLe(x, y) == RSub(x, y)[1] <= 0

RECURSIVE RPow(_, _)
RPow(x, n) == IF n = 0 THEN One ELSE RMul(x, RPow(x, n - 1))

\* Floor, as // would compute it.
RFloor(x) == R(x[1] \div x[2])

(***************************************************************************)
(* State: the sidebar inputs, the bisection's bounds, the locals of the    *)
(* running simulate_withdrawal call, and the script's position.            *)
(* iterations is a history variable: the passes of the while loop so far.  *)
(***************************************************************************)
VARIABLES start_capital, annual_return, inflation, years,
          tax_threshold1, tax_rate1, tax_rate2, dividend_tax,
          auto_calc_withdrawal, net_withdrawal,
          low, high, iterations,
          capital, capital_depleted, data, year,
          pc

inputs == <<start_capital, annual_return, inflation, years,
            tax_threshold1, tax_rate1, tax_rate2, dividend_tax,
            auto_calc_withdrawal>>

locals == <<capital, capital_depleted, data, year>>

vars == <<inputs, net_withdrawal, low, high, iterations, locals, pc>>

Params ==
    [start_capital |-> start_capital, annual_return |-> annual_return,
     inflation |-> inflation, years |-> years,
     tax_threshold1 |-> tax_threshold1, tax_rate1 |-> tax_rate1,
     tax_rate2 |-> tax_rate2, dividend_tax |-> dividend_tax]

(***************************************************************************)
(* simulate_withdrawal, one period at a time.                              *)
(***************************************************************************)
YearZero(cap) ==
    [Year |-> current_year, Profit |-> Zero, ProfitTax |-> Zero,
     DividendTax |-> Zero, GrossWithdrawal |-> Zero, NetWithdrawal |-> Zero,
     EndCapital |-> cap]

CalYearOffByOne(yr) == current_year + yr - 1

CalYear(yr) == current_year + yr

ProfitTaxFlat(profit, threshold, rate1, rate2) == RMul(profit, rate1)

ProfitTax(profit, threshold, rate1, rate2) ==
    IF RLe(profit, threshold)
    THEN RMul(profit, rate1)
    ELSE RAdd(RMul(threshold, rate1), RMul(RSub(profit, threshold), rate2))

AdjustedNetWithdrawal(nw, infl, yr) == RMul(nw, RPow(RAdd(One, infl), yr - 1))

GrossUp(adjusted, div_tax) == RDiv(adjusted, RSub(One, div_tax))

ProjectedCapitalAddsWithdrawal(cap, profit, profit_tax, gross) ==
    RAdd(RSub(RAdd(cap, profit), profit_tax), gross)

ProjectedCapital(cap, profit, profit_tax, gross) ==
    RSub(RSub(RAdd(cap, profit), profit_tax), gross)

DepletingInverted(projected) == RLt(Zero, projected)

Depleting(projected) == RLt(projected, Zero)

ClampKeepsDividend(gross, dividend_paid, projected, div_tax) ==
    LET g == RAdd(gross, projected)
    IN  [gross_withdrawal |-> g,
         adjusted_net_withdrawal |-> RMul(g, RSub(One, div_tax)),
         dividend_paid |-> dividend_paid]

Clamp(gross, dividend_paid, projected, div_tax) ==
    LET g == RAdd(gross, projected)
    IN  [gross_withdrawal |-> g,
         adjusted_net_withdrawal |-> RMul(g, RSub(One, div_tax)),
         dividend_paid |-> RMul(g, div_tax)]

DepletedCapitalUnclamped(projected) == projected

DepletedCapital(projected) == Zero

\* The body of the for loop for period yr, entered with capital cap: the row
\* appended, the capital after it and whether the clamp branch was taken.
\* Requires dividend_tax # 1.
Period(P, nw, cap, yr) ==
    LET cal_year == CalYear(yr)
        profit == RMul(cap, P.annual_return)
        profit_tax == ProfitTax(profit, P.tax_threshold1, P.tax_rate1, P.tax_rate2)
        adjusted == AdjustedNetWithdrawal(nw, P.inflation, yr)
        gross == GrossUp(adjusted, P.dividend_tax)
        dividend_paid == RMul(gross, P.dividend_tax)
        projected == ProjectedCapital(cap, profit, profit_tax, gross)
        clamped == Clamp(gross, dividend_paid, projected, P.dividend_tax)
    IN  IF Depleting(projected)
        THEN [row |-> [Year |-> cal_year, Profit |-> profit,
                       ProfitTax |-> profit_tax,
                       DividendTax |-> clamped.dividend_paid,
                       GrossWithdrawal |-> clamped.gross_withdrawal,
                       NetWithdrawal |-> clamped.adjusted_net_withdrawal,
                       EndCapital |-> DepletedCapital(projected)],
              capital |-> DepletedCapital(projected),
              capital_depleted |-> TRUE]
        ELSE [row |-> [Year |-> cal_year, Profit |-> profit,
                       ProfitTax |-> profit_tax,
                       DividendTax |-> dividend_paid,
                       GrossWithdrawal |-> gross,
                       NetWithdrawal |-> adjusted,
                       EndCapital |-> projected],
              capital |-> projected,
              capital_depleted |-> FALSE]

\* The locals after the period: capital_depleted is only ever set.
AfterPeriod(st, s) ==
    [raised |-> FALSE, capital |-> s.capital,
     capital_depleted |-> st.capital_depleted \/ s.capital_depleted,
     data |-> Append(st.data, s.row)]

LoopContinuesNoBreak(yr, horizon, depleted) == yr <= horizon

\* range(1, years + 1) has a next value and no break was taken.
LoopContinues(yr, horizon, depleted) == yr <= horizon /\ ~depleted

\* The division of line 75 raises ZeroDivisionError.
DivisionRaises(P) == RSub(One, P.dividend_tax)[1] = 0

RECURSIVE SimLoop(_, _, _, _)
SimLoop(P, nw, st, yr) ==
    IF ~LoopContinues(yr, P.years, st.capital_depleted)
    THEN st
    ELSE IF DivisionRaises(P)
    THEN [st EXCEPT !.raised = TRUE]
    ELSE SimLoop(P, nw, AfterPeriod(st, Period(P, nw, st.capital, yr)), yr + 1)

\* The whole call: what it returns (data, capital_depleted, capital), or
\* raised = TRUE when it ends in ZeroDivisionError.
simulate_withdrawal(P, nw) ==
    SimLoop(P, nw,
            [raised |-> FALSE, capital |-> P.start_capital,
             capital_depleted |-> FALSE,
             data |-> <<YearZero(P.start_capital)>>],
            1)

(***************************************************************************)
(* Inputs.                                                                 *)
(***************************************************************************)
Capitals == {R(-1), R(0), R(1), R(MaxCapital \div 2), R(MaxCapital)}

Returns == {Zero, Q(1, 8)}

Inflations == {Zero, Q(1, 16)}

Thresholds == {Q(1, 4), Q(1, 2)}

TaxRates1 == {Zero, Q(1, 4)}

TaxRates2 == {Q(1, 4), Q(1, 2)}

DividendTaxes == {Zero, Q(1, 4), Q(1, 2), One}

Horizons == {-1} \cup (1 .. MaxYears)

Withdrawals == {Zero, Q(1, 2), R(1), R(2), R(4), R(2 * MaxCapital)}

\* With the checkbox ticked net_withdrawal is not bound until line 121; Zero
\* stands for the unbound name and is never read before BisectExit sets it.
GridInit ==
    /\ start_capital \in Capitals
    /\ annual_return \in Returns
    /\ inflation \in Inflations
    /\ years \in Horizons
    /\ tax_threshold1 \in Thresholds
    /\ tax_rate1 \in TaxRates1
    /\ tax_rate2 \in TaxRates2
    /\ dividend_tax \in DividendTaxes
    /\ auto_calc_withdrawal \in BOOLEAN
    /\ net_withdrawal \in (IF auto_calc_withdrawal THEN {Zero} ELSE Withdrawals)

\* The sidebar's default values, with a horizon of one year.
DefaultInit ==
    /\ start_capital = R(3000000)
    /\ annual_return = Q(4, 100)
    /\ inflation = Q(2, 100)
    /\ years = 1
    /\ tax_threshold1 = R(200000)
    /\ tax_rate1 = Q(19, 100)
    /\ tax_rate2 = Q(258, 1000)
    /\ dividend_tax = Q(25, 100)
    /\ auto_calc_withdrawal = FALSE
    /\ net_withdrawal = R(30000)

Init ==
    /\ GridInit \/ DefaultInit
    /\ low = Zero
    /\ high = Zero
    /\ iterations = 0
    /\ capital = Zero
    /\ capital_depleted = FALSE
    /\ data = <<>>
    /\ year = 0
    /\ pc = "script"

(***************************************************************************)
(* The script.                                                             *)
(***************************************************************************)
MidpointFloor(lo, hi) == RFloor(RDiv(RAdd(lo, hi), R(2)))

Midpoint(lo, hi) == RDiv(RAdd(lo, hi), R(2))

\* Line 108 with the checkbox ticked: low, high = 0, start_capital * 2.
StartBisection ==
    /\ pc = "script"
    /\ auto_calc_withdrawal
    /\ low' = Zero
    /\ high' = RMul(start_capital, R(2))
    /\ pc' = "bisect"
    /\ UNCHANGED <<inputs, net_withdrawal, iterations, locals>>

\* Line 108 with the checkbox clear: net_withdrawal is the sidebar's value.
SkipBisection ==
    /\ pc = "script"
    /\ ~auto_calc_withdrawal
    /\ pc' = "call"
    /\ UNCHANGED <<inputs, net_withdrawal, low, high, iterations, locals>>

\* One iteration of the while loop whose call to simulate_withdrawal returns.
Bisect ==
    /\ pc = "bisect"
    /\ RLt(R(tol), RSub(high, low))
    /\ LET test_withdrawal == Midpoint(low, high)
           res == simulate_withdrawal(Params, test_withdrawal)
       IN  /\ ~res.raised
           /\ IF RLt(Zero, res.capital)
              THEN low' = test_withdrawal /\ high' = high
              ELSE high' = test_withdrawal /\ low' = low
    /\ iterations' = iterations + 1
    /\ UNCHANGED <<inputs, net_withdrawal, locals, pc>>

\* One iteration whose call to simulate_withdrawal raises.
BisectRaise ==
    /\ pc = "bisect"
    /\ RLt(R(tol), RSub(high, low))
    /\ simulate_withdrawal(Params, Midpoint(low, high)).raised
    /\ pc' = "raised"
    /\ UNCHANGED <<inputs, net_withdrawal, low, high, iterations, locals>>

\* The while condition is false: net_withdrawal = (low + high) / 2.
BisectExit ==
    /\ pc = "bisect"
    /\ ~RLt(R(tol), RSub(high, low))
    /\ net_withdrawal' = Midpoint(low, high)
    /\ pc' = "call"
    /\ UNCHANGED <<inputs, low, high, iterations, locals>>

\* The call of line 131 up to the for loop: the locals and the year-0 row.
Call ==
    /\ pc = "call"
    /\ capital' = start_capital
    /\ capital_depleted' = FALSE
    /\ data' = <<YearZero(start_capital)>>
    /\ year' = 1
    /\ pc' = "loop"
    /\ UNCHANGED <<inputs, net_withdrawal, low, high, iterations>>

\* One pass of the for loop.
SimulateYear ==
    /\ pc = "loop"
    /\ LoopContinues(year, years, capital_depleted)
    /\ ~DivisionRaises(Params)
    /\ LET st == [raised |-> FALSE, capital |-> capital,
                  capital_depleted |-> capital_depleted, data |-> data]
           s == AfterPeriod(st, Period(Params, net_withdrawal, capital, year))
       IN  /\ capital' = s.capital
           /\ capital_depleted' = s.capital_depleted
           /\ data' = s.data
    /\ year' = year + 1
    /\ UNCHANGED <<inputs, net_withdrawal, low, high, iterations, pc>>

\* A pass of the for loop that ends in ZeroDivisionError.
SimulateRaise ==
    /\ pc = "loop"
    /\ LoopContinues(year, years, capital_depleted)
    /\ DivisionRaises(Params)
    /\ pc' = "raised"
    /\ UNCHANGED <<inputs, net_withdrawal, low, high, iterations, locals>>

\* The loop is over (exhausted, or left by break): return df, flag, capital.
Return ==
    /\ pc = "loop"
    /\ ~LoopContinues(year, years, capital_depleted)
    /\ pc' = "returned"
    /\ UNCHANGED <<inputs, net_withdrawal, low, high, iterations, locals>>

Next ==
    \/ StartBisection
    \/ SkipBisection
    \/ Bisect
    \/ BisectRaise
    \/ BisectExit
    \/ Call
    \/ SimulateYear
    \/ SimulateRaise
    \/ Return

Spec == Init /\ [][Next]_vars

(***************************************************************************)
(* Vocabulary of the properties: the parameter ranges of the data model    *)
(* and the quantities of one period, recomputed from the rows.             *)
(***************************************************************************)
RGe(x, y) == RLe(y, x)

\* startCapital >= 0, horizonYears >= 1, dividendTaxRate < 1; every other
\* input of the model lies in its declared range.
Admissible ==
    /\ RGe(start_capital, Zero)
    /\ years >= 1
    /\ RLt(dividend_tax, One)

InvalidParameters ==
    \/ RGe(dividend_tax, One)
    \/ years < 0
    \/ RLt(start_capital, Zero)

Rows == 2 .. Len(data)

CapitalBefore(k) == data[k - 1].EndCapital

RowProfit(k) == RMul(CapitalBefore(k), annual_return)

RowProfitTax(k) ==
    IF RLe(RowProfit(k), tax_threshold1)
    THEN RMul(RowProfit(k), tax_rate1)
    ELSE RAdd(RMul(tax_threshold1, tax_rate1),
              RMul(RSub(RowProfit(k), tax_threshold1), tax_rate2))

RowNet(k) == RMul(net_withdrawal, RPow(RAdd(One, inflation), k - 2))

RowGross(k) == RDiv(RowNet(k), RSub(One, dividend_tax))

RowProjected(k) ==
    RSub(RSub(RAdd(CapitalBefore(k), RowProfit(k)), RowProfitTax(k)), RowGross(k))

Returned == pc = "returned"

SolverDone == auto_calc_withdrawal /\ pc \in {"call", "loop", "returned"}

Other(w) == simulate_withdrawal(Params, w)

(***************************************************************************)
(* C1.  With the bisection's result as net withdrawal, the final           *)
(* simulation ends with a capital within tol of 0, in at most years        *)
(* periods, for every admissible parameter set with start_capital > 0.     *)
(***************************************************************************)
C1_SolverCorrect ==
    (Returned /\ auto_calc_withdrawal /\ Admissible /\ RLt(Zero, start_capital))
        => /\ RGe(capital, Zero)
           /\ RLe(capital, R(tol))
           /\ Len(data) - 1 <= years

(***************************************************************************)
(* C2.  Every row of the table, the year-0 row included, has               *)
(* EndCapital >= 0 whenever start_capital >= 0.                            *)
(***************************************************************************)
C2_NonNegative ==
    RGe(start_capital, Zero)
        => \A k \in 1 .. Len(data) : RGe(data[k].EndCapital, Zero)

C2_Witness ==
    /\ Returned
    /\ RGe(start_capital, Zero)
    /\ capital_depleted
    /\ Len(data) >= 3

(***************************************************************************)
(* C3.  A call with dividend_tax >= 1, a negative horizon or a negative    *)
(* start capital is rejected before any period is simulated: it returns    *)
(* no table and appends no period row.                                     *)
(***************************************************************************)
C3_InvalidRejected ==
    InvalidParameters => (pc # "returned" /\ Len(data) <= 1)

(***************************************************************************)
(* C4.  Terminal capital is non-increasing in the net withdrawal: a run    *)
(* with a larger withdrawal never ends with more capital, one with a       *)
(* smaller withdrawal never with less.                                     *)
(***************************************************************************)
C4_TerminalMonotone ==
    (Returned /\ Admissible)
        => \A w \in Withdrawals :
              /\ RLe(net_withdrawal, w) => RLe(Other(w).capital, capital)
              /\ RLe(w, net_withdrawal) => RLe(capital, Other(w).capital)

C4_Witness ==
    /\ Returned
    /\ Admissible
    /\ ~capital_depleted
    /\ \E w \in Withdrawals :
          /\ RLt(net_withdrawal, w)
          /\ RLt(Other(w).capital, capital)
          /\ ~Other(w).capital_depleted

(***************************************************************************)
(* C5, as claimed.  If the run is depleted at period p1, a run with a      *)
(* larger withdrawal is depleted at a period p2 >= p1.                     *)
(***************************************************************************)
C5_DepletionNotEarlier ==
    (Returned /\ Admissible /\ capital_depleted)
        => \A w \in Withdrawals :
              RLe(net_withdrawal, w)
                  => /\ Other(w).capital_depleted
                     /\ Len(Other(w).data) >= Len(data)

(***************************************************************************)
(* C5, amended.  If the run is depleted at period p1, a run with a larger  *)
(* withdrawal is depleted too, at a period p2 <= p1.                       *)
(***************************************************************************)
C5_DepletionNotLater ==
    (Returned /\ Admissible /\ capital_depleted)
        => \A w \in Withdrawals :
              RLe(net_withdrawal, w)
                  => /\ Other(w).capital_depleted
                     /\ Len(Other(w).data) <= Len(data)

C5_Witness ==
    /\ Returned
    /\ Admissible
    /\ capital_depleted
    /\ \E w \in Withdrawals :
          /\ RLt(net_withdrawal, w)
          /\ Other(w).capital_depleted
          /\ Len(Other(w).data) < Len(data)

(***************************************************************************)
(* C6.  capital_depleted holds exactly when some period's projected        *)
(* capital was negative; that period's row has EndCapital = 0 and is the   *)
(* last row; the capital returned is the last row's EndCapital.            *)
(***************************************************************************)
C6_DepletionEndsRun ==
    /\ capital_depleted <=> \E k \in Rows : RLt(RowProjected(k), Zero)
    /\ \A k \in Rows :
          RLt(RowProjected(k), Zero)
              => data[k].EndCapital = Zero /\ k = Len(data)
    /\ Len(data) >= 1 => capital = data[Len(data)].EndCapital

C6_Witness ==
    /\ Returned
    /\ capital_depleted
    /\ Len(data) - 1 < years
    /\ Len(data) >= 3

(***************************************************************************)
(* C7.  The bisection keeps 0 <= low <= high <= 2 * start_capital, halves  *)
(* high - low at every iteration, stops after the finitely many            *)
(* iterations it takes to halve 2 * start_capital down to tol, and ends    *)
(* with high - low <= tol; with start_capital = 0 it runs no iteration     *)
(* and yields 0.                                                           *)
(***************************************************************************)
RECURSIVE HalvingsToFit(_, _)
HalvingsToFit(width, n) ==
    IF RLe(width, R(tol)) THEN n ELSE HalvingsToFit(RDiv(width, R(2)), n + 1)

InSolver == auto_calc_withdrawal /\ pc \in {"bisect", "call", "loop", "returned"}

C7_Range ==
    /\ RLe(Zero, low)
    /\ RLe(low, high)
    /\ RLe(high, RMul(start_capital, R(2)))

C7_Halves ==
    RMul(RSub(high, low), RPow(R(2), iterations)) = RMul(start_capital, R(2))

C7_Finite == iterations <= HalvingsToFit(RMul(start_capital, R(2)), 0)

C7_Exit ==
    SolverDone
        => /\ RLe(RSub(high, low), R(tol))
           /\ net_withdrawal = RDiv(RAdd(low, high), R(2))
           /\ iterations = HalvingsToFit(RMul(start_capital, R(2)), 0)

C7_ZeroCapital ==
    start_capital = Zero
        => /\ iterations = 0
           /\ SolverDone => net_withdrawal = Zero

C7_SolverTerminates ==
    (InSolver /\ RGe(start_capital, Zero))
        => C7_Range /\ C7_Halves /\ C7_Finite /\ C7_Exit /\ C7_ZeroCapital

C7_Witness ==
    /\ SolverDone
    /\ start_capital = R(MaxCapital)
    /\ iterations >= 3
    /\ RLt(Zero, low)
    /\ RLt(high, RMul(start_capital, R(2)))

(***************************************************************************)
(* C8.  A period whose projected capital is >= 0 is recorded with          *)
(* profit = capitalBefore * annual_return, the two-bracket profit tax,     *)
(* the inflation-indexed net withdrawal, its gross-up, the dividend tax    *)
(* on the gross, and EndCapital = capitalBefore + profit - profitTax -     *)
(* grossWithdrawal.  With the sidebar's defaults period 1 ends with        *)
(* 3,057,200.                                                              *)
(***************************************************************************)
C8_PeriodStep ==
    /\ \A k \in Rows :
          RGe(RowProjected(k), Zero)
              => /\ data[k].Profit = RowProfit(k)
                 /\ data[k].ProfitTax = RowProfitTax(k)
                 /\ data[k].NetWithdrawal = RowNet(k)
                 /\ data[k].GrossWithdrawal = RowGross(k)
                 /\ data[k].DividendTax = RMul(RowGross(k), dividend_tax)
                 /\ data[k].EndCapital = RowProjected(k)
    /\ (start_capital = R(3000000) /\ Len(data) >= 2)
          => /\ data[2].Profit = R(120000)
             /\ data[2].ProfitTax = R(22800)
             /\ data[2].NetWithdrawal = R(30000)
             /\ data[2].GrossWithdrawal = R(40000)
             /\ data[2].DividendTax = R(10000)
             /\ data[2].EndCapital = R(3057200)

C8_Witness ==
    /\ Returned
    /\ start_capital = R(3000000)
    /\ ~capital_depleted
    /\ Len(data) = 2

(***************************************************************************)
(* C9.  In the period whose projected capital is negative the recorded     *)
(* gross withdrawal is capitalBefore + profit - profitTax, profit and      *)
(* profit tax are the values computed before the clamp, and net            *)
(* withdrawal and dividend tax are gross * (1 - dividend_tax) and          *)
(* gross * dividend_tax, which add up to the gross withdrawal.             *)
(***************************************************************************)
C9_DepletionClamp ==
    \A k \in Rows :
        RLt(RowProjected(k), Zero)
            => /\ data[k].GrossWithdrawal
                     = RSub(RAdd(CapitalBefore(k), RowProfit(k)), RowProfitTax(k))
               /\ data[k].Profit = RowProfit(k)
               /\ data[k].ProfitTax = RowProfitTax(k)
               /\ data[k].NetWithdrawal
                     = RMul(data[k].GrossWithdrawal, RSub(One, dividend_tax))
               /\ data[k].DividendTax = RMul(data[k].GrossWithdrawal, dividend_tax)
               /\ RAdd(data[k].NetWithdrawal, data[k].DividendTax)
                     = data[k].GrossWithdrawal

C9_Witness ==
    /\ Returned
    /\ capital_depleted
    /\ RLt(Zero, dividend_tax)
    /\ RLt(Zero, annual_return)
    /\ RLt(Zero, data[Len(data)].GrossWithdrawal)
    /\ RLt(tax_threshold1, data[Len(data)].Profit)

(***************************************************************************)
(* C10.  Once the call has begun the table is non-empty; row 0 is the      *)
(* start state (Year = current_year, all flows 0, EndCapital =             *)
(* start_capital); row k has Year = current_year + k; the table holds one  *)
(* row more than the periods simulated, at most years + 1 rows for a       *)
(* horizon years >= 1, and exactly 2 rows when years = 1.                  *)
(***************************************************************************)
C10_TableShape ==
    pc \in {"loop", "returned"}
        => /\ Len(data) >= 1
           /\ data[1] = [Year |-> current_year, Profit |-> Zero,
                         ProfitTax |-> Zero, DividendTax |-> Zero,
                         GrossWithdrawal |-> Zero, NetWithdrawal |-> Zero,
                         EndCapital |-> start_capital]
           /\ \A k \in 1 .. Len(data) : data[k].Year = current_year + (k - 1)
           /\ Len(data) = 1 + (year - 1)
           /\ years >= 1 => Len(data) <= years + 1
           /\ (Returned /\ years = 1) => Len(data) = 2

C10_Witness ==
    /\ Returned
    /\ years = MaxYears
    /\ Len(data) = years + 1


=============================================================================
